---- MODULE Spec2Model ----
(***************************************************************************)
(* Model of onestay/timer-core: the Timer state machine (the first Timer   *)
(* definition in src/unnamed/part_000, lines 1-206), its emission loop     *)
(* goroutines, the time.Ticker objects they wait on, the subtimer registry *)
(* (src/subtimer.go) and the consumer of Updates (src/example/main.go).    *)
(*                                                                         *)
(* Public operations run on the caller's thread, one at a time; goroutines *)
(* (timerLoop, startSubTimers) interleave with them at the granularity of  *)
(* their reads and writes of the Timer's unsynchronised fields.            *)
(* The clock is an integer; one clock step is one ticker interval.         *)
(***************************************************************************)
EXTENDS Integers, Sequences, FiniteSets, Bags

\* ---------------------------------------------------------------- bounds
\* The specifications explore the same program under different bounds and
\* keep different observation records (see limits below):
\*   Spec         every operation and goroutine; records what each public
\*                call returned
\*   SpecSubs     the public operations and the startSubTimers goroutines,
\*                with more subtimer ids; records what each call returned
\*   SpecUpdates  the timer operations and the emission loops over a longer
\*                stretch of time; records what the consumer received
\*   SpecUpdatesFair  SpecUpdates with every goroutine and the consumer
\*                scheduled fairly
\*   SpecStops    every operation and goroutine, with one emission loop and
\*                two subtimer ids; records what each call returned
\*   SpecConfig   the timer operations and SetUpdateInterval; records what
\*                each call returned
\*   SpecGens     as SpecSubs, over several generations of the registry;
\*                records the ids of the earlier generations as well
\* A bound on the emission loops bounds the successful StartTimer and
\* ResumeTimer calls, each of which spawns one.
MaxTime == 1
MaxLoops == 2
MaxId == 1
MaxLoopsSubs == 1
MaxIdSubs == 2
MaxTimeUpdates == 2
MaxLoopsUpdates == 2
MaxTimeStops == 1
MaxLoopsStops == 1
MaxIdStops == 2
MaxLoopsConfig == 2
MaxLoopsGens == 1
MaxIdGens == 1
MaxInterval == 2

\* ------------------------------------------------------------- constants
Reset == "Reset"
Running == "Running"
Paused == "Paused"
Stopped == "Stopped"

resetOp == "resetOp"
startOp == "startOp"
pauseOp == "pauseOp"
resumeOp == "resumeOp"
stopOp == "stopOp"

nil == 0

defaultUpdateInterval == 10

VARIABLES
    \* fields of Timer
    \* (tickerInterval never changes: it is the unit of the clock)
    State, startTime, pauseTime, elapsed, ticker, updateTicker, subtimers,
    allowResumeAfterStop, stopOnSubtimersFinish, updateInterval,
    \* the time.Ticker objects allocated so far: [on, C], C the number of
    \* ticks buffered in the ticker's channel (capacity 1)
    tickers,
    \* wall clock
    now,
    \* the timerLoop goroutines, a bag of [pc, tk, v]: tk the ticker whose
    \* channel the goroutine waits on (nil when it is not waiting), v the
    \* duration it holds, computed but not yet stored, or being sent (0
    \* otherwise)
    loops,
    \* the values of the senders blocked on the unbuffered Updates channel,
    \* in arrival order
    sendq,
    \* the startSubTimers goroutines that have not returned: [pc, todo]
    starters,
    \* a goroutine hit a nil pointer or the runtime detected a concurrent
    \* map access: the process is gone
    panicked,
    \* the caller's thread: position inside StopSubTimer, and its subtimer
    callerPc, callerId,
    \* the bounds of the run and the observation record it keeps, fixed by
    \* Init: [time, loops, ids, calls, updates, gens]
    limits,
    \* Observation records; no action reads them to decide what the program
    \* does.
    \*   ret         what the public call made by the last step returned:
    \*               [op, arg, err, val]; NoCall after any other step
    \*   stops.ids   ids StopSubTimer got as far as stopping since the last
    \*               StartTimer (or ResetTimer)
    \*   stops.early a subtimer was stopped between the last ResetTimer and
    \*               the StartTimer that followed it
    \*   stops.gone  ids that were registered when a ResetTimer replaced the
    \*               registry (kept when limits.gens)
    \*   got         the consumer's v (main.go:19)
    \*   h.runTotal  clock steps spent Running since the last StartTimer
    \*   h.wasPaused a clock step was spent Paused since the last StartTimer
    \*   h.recv      values received since State last changed (capped at 2)
    ret, stops, got, h

fields == <<State, startTime, pauseTime, elapsed, ticker, updateTicker,
            subtimers, allowResumeAfterStop, stopOnSubtimersFinish,
            updateInterval>>
config == <<allowResumeAfterStop, stopOnSubtimersFinish, updateInterval>>
clocks == <<startTime, pauseTime, elapsed, now>>
drivers == <<ticker, updateTicker, tickers>>
goroutines == <<loops, sendq, starters, panicked>>
caller == <<callerPc, callerId>>
vars == <<fields, tickers, now, goroutines, caller, limits, ret, stops,
          got, h>>

\* make(map[int]*subtimer)
EmptyMap == [i \in {} |-> [state |-> Reset, Time |-> 0]]

Ids == 1..limits.ids

NoStops == [ids |-> {}, early |-> FALSE, gone |-> {}]

NoCall == [op |-> "none", arg |-> 0, err |-> FALSE, val |-> 0]

Min(a, b) == IF a < b THEN a ELSE b

\* ------------------------------------------------------------------ New
\* New() leaves the policy switches at their zero value; code inside the
\* package (the only place that can set them) may set them before use.
InitWith(lim, flags) ==
    /\ limits = lim
    /\ State = Stopped
    /\ startTime = 0
    /\ pauseTime = 0
    /\ elapsed = 0
    /\ ticker = nil
    /\ updateTicker = nil
    /\ subtimers = EmptyMap
    /\ allowResumeAfterStop \in flags
    /\ stopOnSubtimersFinish \in flags
    /\ updateInterval = defaultUpdateInterval
    /\ tickers = <<>>
    /\ now = 0
    /\ loops = EmptyBag
    /\ sendq = <<>>
    /\ starters = <<>>
    /\ panicked = FALSE
    /\ callerPc = "idle"
    /\ callerId = 0
    /\ ret = NoCall
    /\ stops = NoStops
    /\ got = 0
    /\ h = [runTotal |-> 0, wasPaused |-> FALSE, recv |-> 0]

Init ==
    InitWith([time |-> MaxTime, loops |-> MaxLoops, ids |-> MaxId,
              calls |-> TRUE, updates |-> FALSE, gens |-> FALSE], BOOLEAN)

InitSubs ==
    InitWith([time |-> 0, loops |-> MaxLoopsSubs, ids |-> MaxIdSubs,
              calls |-> TRUE, updates |-> FALSE, gens |-> FALSE], BOOLEAN)

InitStops ==
    InitWith([time |-> MaxTimeStops, loops |-> MaxLoopsStops,
              ids |-> MaxIdStops, calls |-> TRUE, updates |-> FALSE, gens |-> FALSE], BOOLEAN)

InitGens ==
    InitWith([time |-> 0, loops |-> MaxLoopsGens, ids |-> MaxIdGens,
              calls |-> TRUE, updates |-> FALSE, gens |-> TRUE], BOOLEAN)

InitConfig ==
    InitWith([time |-> 0, loops |-> MaxLoopsConfig, ids |-> 0,
              calls |-> TRUE, updates |-> FALSE, gens |-> FALSE], {FALSE})

\* the timer exactly as New() returns it
InitUpdates ==
    InitWith([time |-> MaxTimeUpdates, loops |-> MaxLoopsUpdates, ids |-> 0,
              calls |-> FALSE, updates |-> TRUE, gens |-> FALSE], {FALSE})

\* ---------------------------------------------------------- observation
\* a public call returns
Return(op, arg, err, val) ==
    ret' = IF limits.calls
           THEN [op |-> op, arg |-> arg, err |-> err, val |-> val]
           ELSE NoCall

NoReturn == ret' = NoCall

Stopping(new) == stops' = IF limits.calls THEN new ELSE stops

Observe(new) == h' = IF limits.updates THEN new ELSE h

\* the ids of the generations that ResetTimer has ended, this one included
Gone == IF limits.gens THEN stops.gone \cup DOMAIN subtimers ELSE {}

\* State changed: a new period begins
NewPeriod == Observe([h EXCEPT !.recv = 0])

\* ------------------------------------------------------ checkValidState
\* mutant: StartTimer is let through from Stopped as well
checkValidStateStartFromStopped(op) ==
    CASE op = resetOp -> State = Stopped
      [] op = startOp -> State = Reset \/ State = Stopped
      [] op = pauseOp -> State = Running
      [] op = resumeOp -> State = Paused \/ (State = Stopped /\ allowResumeAfterStop)
      [] op = stopOp -> State = Running \/ State = Paused
      [] OTHER -> FALSE

checkValidState(op) ==
    CASE op = resetOp -> State = Stopped
      [] op = startOp -> State = Reset
      [] op = pauseOp -> State = Running
      [] op = resumeOp -> State = Paused \/ (State = Stopped /\ allowResumeAfterStop)
      [] op = stopOp -> State = Running \/ State = Paused
      [] OTHER -> FALSE

CanCall == ~panicked /\ callerPc = "idle"

\* time.NewTicker: a running ticker with an empty channel
NewTicker == [on |-> TRUE, C |-> 0]

\* (*time.Ticker).Stop: no more ticks; the channel is neither closed nor
\* drained
TickerStop(ts, k) == [ts EXCEPT ![k].on = FALSE]

Loop(pc, tk, v) == [pc |-> pc, tk |-> tk, v |-> v]

\* go t.timerLoop(): a new goroutine at the top of its for loop
SpawnLoop(ls) == ls (+) SetToBag({Loop("select", nil, 0)})

\* room for one more emission loop within the bounds of the run
CanSpawn == BagCardinality(loops) < limits.loops

\* go t.startSubTimers()
SpawnStarter(ss) == Append(ss, [pc |-> "begin", todo |-> {}])

\* ---------------------------------------------------- SetUpdateInterval
\* the values a caller passes
Intervals == (-1)..MaxInterval

\* mutant: zero is stored as given
SetUpdateIntervalKeepsZero(updateIntervalArg) ==
    /\ CanCall
    /\ IF State # Stopped
       THEN /\ Return("SetUpdateInterval", updateIntervalArg, TRUE, 0)
            /\ UNCHANGED updateInterval
       ELSE IF updateIntervalArg < 0
       THEN /\ Return("SetUpdateInterval", updateIntervalArg, TRUE, 0)
            /\ UNCHANGED updateInterval
       ELSE /\ updateInterval' = updateIntervalArg
            /\ Return("SetUpdateInterval", updateIntervalArg, FALSE, 0)
    /\ UNCHANGED <<State, clocks, drivers, subtimers, allowResumeAfterStop,
                   stopOnSubtimersFinish, goroutines, caller, limits, stops,
                   got, h>>

SetUpdateInterval(updateIntervalArg) ==
    /\ CanCall
    /\ IF State # Stopped
       THEN /\ Return("SetUpdateInterval", updateIntervalArg, TRUE, 0)
            /\ UNCHANGED updateInterval
       ELSE IF updateIntervalArg < 0
       THEN /\ Return("SetUpdateInterval", updateIntervalArg, TRUE, 0)
            /\ UNCHANGED updateInterval
       ELSE IF updateIntervalArg = 0
       THEN /\ updateInterval' = defaultUpdateInterval
            /\ Return("SetUpdateInterval", updateIntervalArg, FALSE, 0)
       ELSE /\ updateInterval' = updateIntervalArg
            /\ Return("SetUpdateInterval", updateIntervalArg, FALSE, 0)
    /\ UNCHANGED <<State, clocks, drivers, subtimers, allowResumeAfterStop,
                   stopOnSubtimersFinish, goroutines, caller, limits, stops,
                   got, h>>

\* ----------------------------------------------------------- StartTimer
\* The update ticker is created with t.updateInterval; nothing ever reads
\* its channel, so its period is not kept.
StartTimer ==
    /\ CanCall
    /\ IF ~checkValidState(startOp)
       THEN /\ Return("StartTimer", 0, TRUE, 0)
            /\ UNCHANGED <<fields, tickers, now, goroutines, caller, limits,
                           stops, got, h>>
       ELSE /\ CanSpawn
            /\ State' = Running
            /\ tickers' = tickers \o <<NewTicker, NewTicker>>
            /\ ticker' = Len(tickers) + 1
            /\ updateTicker' = Len(tickers) + 2
            /\ startTime' = now
            /\ starters' = SpawnStarter(starters)
            /\ loops' = SpawnLoop(loops)
            /\ Return("StartTimer", 0, FALSE, 0)
            /\ Stopping([stops EXCEPT !.ids = {}, !.early = stops.ids # {}])
            /\ Observe([runTotal |-> 0, wasPaused |-> FALSE, recv |-> 0])
            /\ UNCHANGED <<pauseTime, elapsed, subtimers, config, now, sendq,
                           panicked, caller, limits, got>>

\* ------------------------------------------------------------ StopTimer
\* the body of StopTimer, which StopSubTimer runs too; err is what it
\* returns
DoStopTimer(err) ==
    IF ~checkValidState(stopOp)
    THEN /\ err = TRUE
         /\ UNCHANGED <<State, tickers, h>>
    ELSE /\ err = FALSE
         /\ State' = Stopped
         /\ tickers' = TickerStop(TickerStop(tickers, ticker), updateTicker)
         /\ NewPeriod

StopTimer ==
    /\ CanCall
    /\ \E err \in BOOLEAN :
         /\ DoStopTimer(err)
         /\ Return("StopTimer", 0, err, 0)
    /\ UNCHANGED <<clocks, ticker, updateTicker, subtimers, config,
                   goroutines, caller, limits, stops, got>>

\* ----------------------------------------------------------- ResetTimer
\* mutant: the registry is kept
ResetTimerKeepsMap ==
    /\ CanCall
    /\ IF ~checkValidState(resetOp)
       THEN /\ Return("ResetTimer", 0, TRUE, 0)
            /\ UNCHANGED <<fields, tickers, now, goroutines, caller, limits,
                           stops, got, h>>
       ELSE /\ subtimers' = subtimers
            /\ State' = Reset
            /\ ticker' = nil
            /\ updateTicker' = nil
            /\ starters' = starters
            /\ Stopping([NoStops EXCEPT !.gone = Gone])
            /\ NewPeriod
            /\ Return("ResetTimer", 0, FALSE, 0)
            /\ UNCHANGED <<clocks, config, tickers, loops, sendq, panicked,
                           caller, limits, got>>

\* The map is replaced, not cleared: a startSubTimers goroutine that is
\* ranging over the old map goes on writing to records nobody can reach
\* any more, so it counts as returned from here on.
ResetTimer ==
    /\ CanCall
    /\ IF ~checkValidState(resetOp)
       THEN /\ Return("ResetTimer", 0, TRUE, 0)
            /\ UNCHANGED <<fields, tickers, now, goroutines, caller, limits,
                           stops, got, h>>
       ELSE /\ subtimers' = EmptyMap
            /\ State' = Reset
            /\ ticker' = nil
            /\ updateTicker' = nil
            /\ starters' = SelectSeq(starters, LAMBDA g : g.pc # "iter")
            /\ Stopping([NoStops EXCEPT !.gone = Gone])
            /\ NewPeriod
            /\ Return("ResetTimer", 0, FALSE, 0)
            /\ UNCHANGED <<clocks, config, tickers, loops, sendq, panicked,
                           caller, limits, got>>

\* ----------------------------------------------------------- PauseTimer
PauseTimer ==
    /\ CanCall
    /\ IF ~checkValidState(pauseOp)
       THEN /\ Return("PauseTimer", 0, TRUE, 0)
            /\ UNCHANGED <<fields, tickers, now, goroutines, caller, limits,
                           stops, got, h>>
       ELSE /\ State' = Paused
            /\ pauseTime' = now
            /\ NewPeriod
            /\ Return("PauseTimer", 0, FALSE, 0)
            /\ UNCHANGED <<startTime, elapsed, now, drivers, subtimers,
                           config, goroutines, caller, limits, stops,
                           got>>

\* ---------------------------------------------------------- ResumeTimer
\* mutant: the paused interval is not taken out of startTime
resumeAfterPauseNoRebase ==
    /\ CanSpawn
    /\ startTime' = startTime
    /\ State' = Running
    /\ loops' = SpawnLoop(loops)
    /\ NewPeriod

\* time.Since(t.pauseTime) is now - pauseTime
resumeAfterPause ==
    /\ CanSpawn
    /\ startTime' = startTime + (now - pauseTime)
    /\ State' = Running
    /\ loops' = SpawnLoop(loops)
    /\ NewPeriod

resumeAfterStop ==
    UNCHANGED <<startTime, State, loops, h>>

\* ResumeTimer never consults checkValidState and always returns nil
ResumeTimer ==
    /\ CanCall
    /\ IF State = Paused
       THEN resumeAfterPause
       ELSE IF State = Stopped /\ allowResumeAfterStop
       THEN resumeAfterStop
       ELSE UNCHANGED <<startTime, State, loops, h>>
    /\ Return("ResumeTimer", 0, FALSE, 0)
    /\ UNCHANGED <<pauseTime, elapsed, now, drivers, subtimers, config,
                   sendq, starters, panicked, caller, limits, stops,
                   got>>

\* ------------------------------------------------------------ timerLoop
\* a goroutine of the bag is at pc
LoopAt(r, pc) == ~panicked /\ BagIn(r, loops) /\ r.pc = pc

\* the goroutine r goes on as q
LoopStep(r, q) == (loops (-) SetToBag({r})) (+) SetToBag({q})

\* select { case <-t.ticker.C: evaluates t.ticker.C; a nil t.ticker is a
\* nil pointer dereference
LoopSelect(r) ==
    /\ LoopAt(r, "select")
    /\ IF ticker = nil
       THEN /\ panicked' = TRUE
            /\ UNCHANGED loops
       ELSE /\ loops' = LoopStep(r, Loop("wait", ticker, 0))
            /\ UNCHANGED panicked
    /\ NoReturn
    /\ UNCHANGED <<fields, tickers, now, sendq, starters, caller, limits,
                   stops, got, h>>

\* the receive from the ticker's channel
LoopTick(r) ==
    /\ LoopAt(r, "wait")
    /\ tickers[r.tk].C = 1
    /\ tickers' = [tickers EXCEPT ![r.tk].C = 0]
    /\ loops' = LoopStep(r, Loop("check", nil, 0))
    /\ NoReturn
    /\ UNCHANGED <<fields, now, sendq, starters, panicked, caller, limits,
                   stops, got, h>>

\* if t.State == Running
LoopCheck(r) ==
    /\ LoopAt(r, "check")
    /\ loops' = LoopStep(r, Loop(IF State = Running THEN "compute"
                                 ELSE "select", nil, 0))
    /\ NoReturn
    /\ UNCHANGED <<fields, tickers, now, sendq, starters, panicked, caller,
                   limits, stops, got, h>>

\* time.Now().Sub(t.startTime)
LoopCompute(r) ==
    /\ LoopAt(r, "compute")
    /\ loops' = LoopStep(r, Loop("store", nil, now - startTime))
    /\ NoReturn
    /\ UNCHANGED <<fields, tickers, now, sendq, starters, panicked, caller,
                   limits, stops, got, h>>

\* t.elapsed = ...
LoopStore(r) ==
    /\ LoopAt(r, "store")
    /\ elapsed' = r.v
    /\ loops' = LoopStep(r, Loop("send", nil, 0))
    /\ NoReturn
    /\ UNCHANGED <<State, startTime, pauseTime, now, drivers, subtimers,
                   config, sendq, starters, panicked, caller, limits,
                   stops, got, h>>

\* t.Updates <- t.elapsed: the operand is read from the field, then the
\* goroutine blocks until the consumer takes it
LoopSend(r) ==
    /\ LoopAt(r, "send")
    /\ loops' = LoopStep(r, Loop("blocked", nil, elapsed))
    /\ sendq' = Append(sendq, elapsed)
    /\ NoReturn
    /\ UNCHANGED <<fields, tickers, now, starters, panicked, caller, limits,
                   stops, got, h>>

\* ------------------------------------------------------------- consumer
\* v := <-t.Updates  (main.go:19): takes the value of the first blocked
\* sender, which goes back to the top of its loop
Receive ==
    /\ ~panicked
    /\ sendq # <<>>
    /\ got' = IF limits.updates THEN Head(sendq) ELSE got
    /\ loops' = LoopStep(Loop("blocked", nil, Head(sendq)),
                         Loop("select", nil, 0))
    /\ sendq' = Tail(sendq)
    /\ Observe([h EXCEPT !.recv = Min(h.recv + 1, 2)])
    /\ NoReturn
    /\ UNCHANGED <<fields, tickers, now, starters, panicked, caller, limits,
                   stops>>

\* ---------------------------------------------------------------- clock
\* One ticker interval passes: every running ticker puts a tick in its
\* channel unless one is still buffered there.
Tick ==
    /\ ~panicked
    /\ now < limits.time
    /\ now' = now + 1
    /\ tickers' = [k \in DOMAIN tickers |->
                     IF tickers[k].on THEN [tickers[k] EXCEPT !.C = 1]
                     ELSE tickers[k]]
    /\ Observe([h EXCEPT
                  !.runTotal = IF State = Running THEN @ + 1 ELSE @,
                  !.wasPaused = (@ \/ State = Paused)])
    /\ NoReturn
    /\ UNCHANGED <<fields, goroutines, caller, limits, stops, got>>

\* ---------------------------------------------------------- AddSubTimer
Put(m, id, s) ==
    [i \in DOMAIN m \cup {id} |-> IF i = id THEN s ELSE m[i]]

\* mutant: no check for an id that is registered already
AddSubTimerOverwrites(id) ==
    /\ CanCall
    /\ IF State # Reset
       THEN /\ Return("AddSubTimer", id, TRUE, 0)
            /\ UNCHANGED subtimers
       ELSE /\ subtimers' = Put(subtimers, id, [state |-> Reset, Time |-> 0])
            /\ Return("AddSubTimer", id, FALSE, 0)
    /\ UNCHANGED <<State, clocks, drivers, config, goroutines, caller,
                   limits, stops, got, h>>

\* A startSubTimers goroutine may be ranging over the map while the entry
\* is inserted (the goroutine started late, after a ResetTimer): the Go
\* runtime then either lets the range produce the new entry, or not, or
\* detects the concurrent map write and ends the process.
AddSubTimer(id) ==
    /\ CanCall
    /\ IF State # Reset \/ id \in DOMAIN subtimers
       THEN /\ Return("AddSubTimer", id, TRUE, 0)
            /\ UNCHANGED <<subtimers, starters, panicked>>
       ELSE \/ /\ subtimers' = Put(subtimers, id, [state |-> Reset, Time |-> 0])
               /\ \E seen \in SUBSET {k \in DOMAIN starters :
                                        starters[k].pc = "iter"} :
                    starters' = [k \in DOMAIN starters |->
                                   IF k \in seen
                                   THEN [starters[k] EXCEPT !.todo = @ \cup {id}]
                                   ELSE starters[k]]
               /\ Return("AddSubTimer", id, FALSE, 0)
               /\ UNCHANGED panicked
            \/ /\ \E k \in DOMAIN starters : starters[k].pc = "iter"
               /\ panicked' = TRUE
               /\ NoReturn
               /\ UNCHANGED <<subtimers, starters>>
    /\ UNCHANGED <<State, clocks, drivers, config, loops, sendq, caller,
                   limits, stops, got, h>>

\* --------------------------------------------------------- StopSubTimer
checkSubTimerFinish ==
    \A i \in DOMAIN subtimers : subtimers[i].state = Stopped

\* mutant: the snapshot is not taken
StopSubTimerStoreNoSnapshot(id) ==
    /\ CanCall
    /\ IF id \notin DOMAIN subtimers
       THEN /\ Return("StopSubTimer", id, TRUE, 0)
            /\ UNCHANGED <<subtimers, caller, stops>>
       ELSE /\ subtimers' = [subtimers EXCEPT ![id].state = Stopped]
            /\ callerPc' = "finish"
            /\ callerId' = id
            /\ Stopping([stops EXCEPT !.ids = @ \cup {id}])
            /\ NoReturn
    /\ UNCHANGED <<State, clocks, drivers, config, goroutines, limits, got,
                   h>>

\* up to the writes of s.state and s.Time
StopSubTimerStore(id) ==
    /\ CanCall
    /\ IF id \notin DOMAIN subtimers
       THEN /\ Return("StopSubTimer", id, TRUE, 0)
            /\ UNCHANGED <<subtimers, caller, stops>>
       ELSE /\ subtimers' = [subtimers EXCEPT
                               ![id] = [state |-> Stopped, Time |-> elapsed]]
            /\ callerPc' = "finish"
            /\ callerId' = id
            /\ Stopping([stops EXCEPT !.ids = @ \cup {id}])
            /\ NoReturn
    /\ UNCHANGED <<State, clocks, drivers, config, goroutines, limits, got,
                   h>>

\* from the finish check to the return of s.Time
StopSubTimerFinish ==
    /\ ~panicked
    /\ callerPc = "finish"
    /\ IF stopOnSubtimersFinish /\ checkSubTimerFinish
       THEN \E err \in BOOLEAN : DoStopTimer(err)
       ELSE UNCHANGED <<State, tickers, h>>
    /\ Return("StopSubTimer", callerId, FALSE, subtimers[callerId].Time)
    /\ callerPc' = "idle"
    /\ callerId' = 0
    /\ UNCHANGED <<clocks, ticker, updateTicker, subtimers, config,
                   goroutines, limits, stops, got>>

\* -------------------------------------------------------- startSubTimers
StarterAt(k, pc) == ~panicked /\ starters[k].pc = pc

\* the goroutine returns
Remove(ss, k) ==
    [i \in 1..(Len(ss) - 1) |-> IF i < k THEN ss[i] ELSE ss[i + 1]]

\* if len(t.subtimers) <= 0 { return }, then the range begins on the map
\* t.subtimers holds at that moment
StarterBegin(k) ==
    /\ StarterAt(k, "begin")
    /\ starters' = IF Cardinality(DOMAIN subtimers) <= 0
                   THEN Remove(starters, k)
                   ELSE [starters EXCEPT ![k] =
                           [pc |-> "iter", todo |-> DOMAIN subtimers]]
    /\ NoReturn
    /\ UNCHANGED <<fields, tickers, now, loops, sendq, panicked, caller,
                   limits, stops, got, h>>

\* s.state = Running, for the entries of the map in an order the runtime
\* chooses
StarterIter(k) ==
    /\ StarterAt(k, "iter")
    /\ \E id \in starters[k].todo :
         /\ subtimers' = [subtimers EXCEPT ![id].state = Running]
         /\ starters' = IF starters[k].todo = {id}
                        THEN Remove(starters, k)
                        ELSE [starters EXCEPT ![k].todo = @ \ {id}]
    /\ NoReturn
    /\ UNCHANGED <<State, clocks, drivers, config, loops, sendq, panicked,
                   caller, limits, stops, got, h>>

\* ------------------------------------------------------------------ Next
TimerOps ==
    \/ StartTimer
    \/ StopTimer
    \/ ResetTimer
    \/ PauseTimer
    \/ ResumeTimer

SubTimerOps ==
    \/ \E id \in Ids : AddSubTimer(id)
    \/ \E id \in Ids : StopSubTimerStore(id)
    \/ StopSubTimerFinish

LoopSteps ==
    \/ \E r \in BagToSet(loops) : LoopSelect(r)
    \/ \E r \in BagToSet(loops) : LoopTick(r)
    \/ \E r \in BagToSet(loops) : LoopCheck(r)
    \/ \E r \in BagToSet(loops) : LoopCompute(r)
    \/ \E r \in BagToSet(loops) : LoopStore(r)
    \/ \E r \in BagToSet(loops) : LoopSend(r)

Next ==
    \/ TimerOps
    \/ SubTimerOps
    \/ \E k \in DOMAIN starters : StarterBegin(k)
    \/ \E k \in DOMAIN starters : StarterIter(k)
    \/ LoopSteps
    \/ Receive
    \/ Tick

\* Neither an emission loop nor the clock writes State, the registry or a
\* startSubTimers goroutine, and all they can do to a public operation is
\* to end the process: NextSubs leaves the loops where StartTimer and
\* ResumeTimer put them and loses no behaviour of the registry.
NextSubs ==
    \/ TimerOps
    \/ SubTimerOps
    \/ \E k \in DOMAIN starters : StarterBegin(k)
    \/ \E k \in DOMAIN starters : StarterIter(k)

\* No emission loop reads the subtimer registry, and all a subtimer
\* operation does to the timer is to run StopTimer: NextUpdates leaves the
\* registry empty and the startSubTimers goroutines where StartTimer put
\* them, and loses no behaviour of the timer and its loops.
NextUpdates ==
    \/ TimerOps
    \/ LoopSteps
    \/ Receive
    \/ Tick

\* updateInterval is read only by StartTimer, for the ticker nobody reads:
\* SetUpdateInterval is left out of the other next-state relations and is
\* explored with the operations that change State.
NextConfig ==
    \/ TimerOps
    \/ \E d \in Intervals : SetUpdateInterval(d)

Spec == Init /\ [][Next]_vars

SpecSubs == InitSubs /\ [][NextSubs]_vars

SpecUpdates == InitUpdates /\ [][NextUpdates]_vars

\* The Go scheduler runs every goroutine that can take a step, and the
\* consumer of main.go keeps reading Updates.
SpecUpdatesFair ==
    /\ SpecUpdates
    /\ WF_vars(\E r \in BagToSet(loops) : LoopSelect(r))
    /\ WF_vars(\E r \in BagToSet(loops) : LoopTick(r))
    /\ WF_vars(\E r \in BagToSet(loops) : LoopCheck(r))
    /\ WF_vars(\E r \in BagToSet(loops) : LoopCompute(r))
    /\ WF_vars(\E r \in BagToSet(loops) : LoopStore(r))
    /\ WF_vars(\E r \in BagToSet(loops) : LoopSend(r))
    /\ WF_vars(Receive)

SpecStops == InitStops /\ [][Next]_vars

SpecConfig == InitConfig /\ [][NextConfig]_vars

SpecGens == InitGens /\ [][NextSubs]_vars

\* ======================================================================
\* Properties
\* ======================================================================
Called(op) == ret'.op = op

Received == Len(sendq') < Len(sendq)

C2_ResumeOutsidePausedFails ==
    [][(/\ Called("ResumeTimer")
        /\ State # Paused
        /\ ~(State = Stopped /\ allowResumeAfterStop)) =>
          (ret'.err /\ UNCHANGED fields)]_vars

\* C3, as claimed: the timer starts in Stopped, State changes only along
\* Stopped->Reset, Reset->Running, Running->Paused, Paused->Running,
\* Running->Stopped and Paused->Stopped, and every timer operation that
\* returns no error leaves the timer in the state its edge leads to.
C3_Edges ==
    {<<Stopped, Reset>>, <<Reset, Running>>, <<Running, Paused>>,
     <<Paused, Running>>, <<Running, Stopped>>, <<Paused, Stopped>>}

C3_Post(op) ==
    CASE op = "ResetTimer" -> Reset
      [] op = "StartTimer" -> Running
      [] op = "PauseTimer" -> Paused
      [] op = "ResumeTimer" -> Running
      [] op = "StopTimer" -> Stopped

C3_OnlyEdgesAndPostStates ==
    [][/\ State' # State => <<State, State'>> \in C3_Edges
       /\ \A op \in {"ResetTimer", "StartTimer", "PauseTimer", "ResumeTimer",
                     "StopTimer"} :
            (Called(op) /\ ~ret'.err) => State' = C3_Post(op)]_vars

\* the timer as New() returned it: no operation has changed it yet
Fresh == State = Stopped /\ tickers = <<>> /\ loops = EmptyBag

\* C4, as claimed: StartTimer on the timer New() returned succeeds, leaves
\* the timer Running and spawns its emission loop (the first step of the
\* demo).
C4_StartOnNewTimerSucceeds ==
    [][(Fresh /\ Called("StartTimer")) =>
          /\ ~ret'.err
          /\ State' = Running
          /\ BagCardinality(loops') = 1]_vars

\* C5, as claimed: with two subtimers registered and none of them stopped
\* before StartTimer, a StopSubTimer that returns while the parent is
\* Running stops the parent exactly when stopOnSubtimersFinish is set and
\* both subtimers have been stopped since StartTimer.
C5_ParentStopsAtSecondStop ==
    [][(/\ Called("StopSubTimer")
        /\ ~ret'.err
        /\ State = Running
        /\ ~stops.early
        /\ Cardinality(DOMAIN subtimers) = 2) =>
          (State' = Stopped <=>
             (stopOnSubtimersFinish /\ stops.ids = DOMAIN subtimers))]_vars

\* C6, as claimed: a value received while Running is not smaller than the
\* value received before it in the same Running period.
C6_UpdatesNonDecreasing ==
    [][(Received /\ State = Running /\ h.recv >= 1) => got' >= got]_vars

C8_AtMostOneUpdateWhilePaused ==
    State = Paused => h.recv <= 1

\* C9, as claimed: ResumeTimer in Stopped with allowResumeAfterStop set
\* returns no error, leaves the timer Running and spawns an emission loop.
C9_ResumeAfterStopRuns ==
    [][(Called("ResumeTimer") /\ State = Stopped /\ allowResumeAfterStop) =>
          /\ ~ret'.err
          /\ State' = Running
          /\ BagCardinality(loops') = BagCardinality(loops) + 1]_vars

C13_SetUpdateInterval ==
    [][Called("SetUpdateInterval") =>
          /\ State' = State
          /\ IF State # Stopped \/ ret'.arg < 0
             THEN ret'.err /\ updateInterval' = updateInterval
             ELSE /\ ~ret'.err
                  /\ updateInterval' = IF ret'.arg = 0 THEN 10
                                       ELSE ret'.arg]_vars

\* on a timer that has run and was stopped, a positive value has just
\* been stored
C13_Witness ==
    /\ ret.op = "SetUpdateInterval"
    /\ ~ret.err
    /\ ret.arg = 2
    /\ updateInterval = 2
    /\ State = Stopped
    /\ Len(tickers) >= 2

\* C14, as claimed: at every moment at most one emission loop is alive.
C14_AtMostOneLoop ==
    BagCardinality(loops) <= 1

\* C15, as claimed: whenever the timer is Stopped, eventually no emission
\* loop is left alive (every loop has ended, or the process has).
C15_LoopsEndAfterStop ==
    [](State = Stopped => <>(loops = EmptyBag \/ panicked))

\* C16, as claimed: no step changes elapsed while State is Paused or
\* Stopped.
C16_ElapsedFrozenOutsideRunning ==
    [][(State \in {Paused, Stopped}) => elapsed' = elapsed]_vars

\* C17, as claimed: when StartTimer returns without error every registered
\* subtimer is Running.
C17_SubtimersRunningWhenStartReturns ==
    [][(Called("StartTimer") /\ ~ret'.err) =>
          \A i \in DOMAIN subtimers' : subtimers'[i].state = Running]_vars

\* C18, as claimed: the record of a subtimer that was stopped after
\* StartTimer is Stopped and keeps its snapshot for as long as the
\* registry is not replaced by ResetTimer.
C18_StoppedStaysStopped ==
    [][\A i \in stops.ids :
          (/\ State # Reset
           /\ i \in DOMAIN subtimers
           /\ subtimers[i].state = Stopped
           /\ ~(Called("ResetTimer") /\ ~ret'.err)) =>
             (i \in DOMAIN subtimers' /\ subtimers'[i] = subtimers[i])]_vars

\* C19, as claimed: a StopSubTimer of a registered subtimer made while the
\* parent is not Running, or the subtimer is not Running, leaves the
\* subtimer's record as it was and does not stop the parent.
C19_StopNeedsBothRunning ==
    [][/\ (/\ callerPc = "idle"
           /\ callerPc' = "finish"
           /\ (State # Running \/ subtimers[callerId'].state # Running)) =>
             subtimers'[callerId'] = subtimers[callerId']
       /\ (/\ Called("StopSubTimer")
           /\ ~ret'.err
           /\ State # Running) => State' = State]_vars

\* C20, as claimed: whenever an emission loop evaluates t.ticker.C at the
\* top of an iteration, t.ticker is not nil.
C20_LoopNeverSeesNilTicker ==
    [][\A r \in BagToSet(loops) : LoopSelect(r) => ticker # nil]_vars
====
